---- MODULE Spec2Model ----
(***************************************************************************)
(* Model of hgrs: the status-line parser (mercurial_file.rs), the          *)
(* repository handle (MercurialRepository: new, update_repo,               *)
(* get_file_status, is_dirty_repo) and the ancestor search                 *)
(* (find_parent_repo_recursively) of lib.rs.                               *)
(*                                                                         *)
(* Text is a sequence of one-character strings.  A path is the sequence of *)
(* its components (std::path::Path compares by components).  The external  *)
(* hg process and the filesystem are the environment: every call draws     *)
(* what they answer from a bounded set.                                    *)
(***************************************************************************)
EXTENDS Integers, Sequences, FiniteSets, TLC

VARIABLES line, parsed, repo, hgplain, inv, res, pc, cur, depth, trail

vars == <<line, parsed, repo, hgplain, inv, res, pc, cur, depth, trail>>

(***************************************************************************)
(* Bounds                                                                  *)
(***************************************************************************)
MaxLineLen == 5
MaxLines == 2
MaxNest == 3
MaxDepth == 4

(***************************************************************************)
(* mercurial_file.rs                                                       *)
(***************************************************************************)
FileStatus ==
  {"Modified", "Added", "Removed", "Clean", "Missing", "NotTracked", "Ignored", "Directory"}

\* the characters `impl From<char> for FileStatus` has an arm for
StatusChars == {"M", "A", "R", "C", "!", "?", "I"}

\* the characters a status line is made of here: the known codes, one unknown
\* code, the blank and one file-name character
LineChars == StatusChars \cup {"X", " ", "a"}

\* char::is_ascii_whitespace
Whitespace == {" ", "\t", "\n", "\f", "\r"}

Panic == [kind |-> "panic"]

\* impl From<char> for FileStatus: the last arm panics
StatusFromChar(c) ==
  CASE c = "M" -> "Modified"
    [] c = "A" -> "Added"
    [] c = "R" -> "Removed"
    [] c = "C" -> "Clean"
    [] c = "!" -> "Missing"
    [] c = "?" -> "NotTracked"
    [] c = "I" -> "Ignored"
    [] OTHER -> "panic"

\* a variant of is_dirty that takes an ignored file for a clean one
is_dirty_IgnoredIsClean(status) == status \notin {"Clean", "Ignored"}

\* FileStatus::is_dirty
is_dirty(status) == status # "Clean"

\* str::split_ascii_whitespace: the maximal runs of non-whitespace, in order
RECURSIVE SplitWs(_, _, _)
SplitWs(s, i, tok) ==
  IF i > Len(s)
  THEN IF tok = <<>> THEN <<>> ELSE <<tok>>
  ELSE IF s[i] \in Whitespace
       THEN (IF tok = <<>> THEN <<>> ELSE <<tok>>) \o SplitWs(s, i + 1, <<>>)
       ELSE SplitWs(s, i + 1, Append(tok, s[i]))

split_ascii_whitespace(s) == SplitWs(s, 1, <<>>)

\* impl From<&str> for MercurialFile
\*   status = value.chars().nth(0).unwrap_or('?')
\*   path   = value.split_ascii_whitespace().nth(1).unwrap_or("")
MercurialFileFrom(value) ==
  LET c == IF Len(value) >= 1 THEN value[1] ELSE "?"
      toks == split_ascii_whitespace(value)
      p == IF Len(toks) >= 2 THEN toks[2] ELSE <<>>
      st == StatusFromChar(c)
  IN IF st = "panic" THEN Panic
     ELSE [kind |-> "file", path |-> p, status |-> st]

NoRepo == [kind |-> "none"]
NoInv == [kind |-> "none"]
Idle == [op |-> "none"]

(***************************************************************************)
(* Paths (std::path)                                                       *)
(***************************************************************************)
\* the components of the path a text names: the pieces between "/"
RECURSIVE SplitSlash(_, _, _)
SplitSlash(s, i, comp) ==
  IF i > Len(s)
  THEN IF comp = <<>> THEN <<>> ELSE <<comp>>
  ELSE IF s[i] = "/"
       THEN (IF comp = <<>> THEN <<>> ELSE <<comp>>) \o SplitSlash(s, i + 1, <<>>)
       ELSE SplitSlash(s, i + 1, Append(comp, s[i]))

Components(s) == SplitSlash(s, 1, <<>>)

\* Path::starts_with, by components
IsPrefix(base, p) == Len(base) <= Len(p) /\ SubSeq(p, 1, Len(base)) = base

\* Path::strip_prefix: the rest of the path, or an error
strip_prefix(p, base) ==
  IF IsPrefix(base, p)
  THEN [ok |-> TRUE, name |-> SubSeq(p, Len(base) + 1, Len(p))]
  ELSE [ok |-> FALSE, name |-> <<>>]

\* Path::parent of a path given by its components: none for the empty path
HasParent(p) == Len(p) > 0
Parent(p) == SubSeq(p, 1, Len(p) - 1)

(***************************************************************************)
(* lib.rs: the hg process                                                  *)
(***************************************************************************)
\* a line without the "\r" of a "\r\n" line ending
StripCr(l) ==
  IF Len(l) > 0 /\ l[Len(l)] = "\r" THEN SubSeq(l, 1, Len(l) - 1) ELSE l

\* str::lines: the pieces between "\n" (or "\r\n"); a final line ending adds
\* no empty line
RECURSIVE SplitLines(_, _, _)
SplitLines(s, i, acc) ==
  IF i > Len(s)
  THEN IF acc = <<>> THEN <<>> ELSE <<acc>>
  ELSE IF s[i] = "\n"
       THEN <<StripCr(acc)>> \o SplitLines(s, i + 1, <<>>)
       ELSE SplitLines(s, i + 1, Append(acc, s[i]))

lines(s) == SplitLines(s, 1, <<>>)

\* .map(MercurialFile::from).collect(): a panic in one conversion unwinds the call
RECURSIVE MapFrom(_, _)
MapFrom(ls, i) ==
  IF i > Len(ls) THEN [kind |-> "ok", files |-> <<>>]
  ELSE LET f == MercurialFileFrom(ls[i])
           rest == MapFrom(ls, i + 1)
       IN IF f.kind = "panic" \/ rest.kind = "panic" THEN Panic
          ELSE [kind |-> "ok", files |-> <<f>> \o rest.files]

\* what one `hg status --all` run gives: Command::output() fails (kind
\* "spawn_failed") or gives the exit code and the captured stdout, which is
\* valid UTF-8 or not
\* get_repo_status: the exit code is not looked at
get_repo_status(run) ==
  IF run.kind = "spawn_failed" THEN [kind |-> "err", err |-> "NotMercurialRepository"]
  ELSE IF ~run.utf8 THEN [kind |-> "err", err |-> "RepoWithError"]
  ELSE MapFrom(lines(run.stdout), 1)

\* check_install_init: only a NotFound error of `hg --version` is an error
check_install_init(version) ==
  IF version = "not_found" THEN "HgNotFound" ELSE "Ok"

\* MercurialRepository::new
new(path, version, run) ==
  IF check_install_init(version) # "Ok"
  THEN [kind |-> "err", err |-> "HgNotFound"]
  ELSE LET st == get_repo_status(run)
       IN IF st.kind = "ok"
          THEN [kind |-> "ok", repo |-> [kind |-> "repo", path |-> path, files |-> st.files]]
          ELSE st

\* a variant of Find that gives the last match
RECURSIVE FindLast(_, _, _)
FindLast(files, name, i) ==
  IF i > Len(files) THEN 0
  ELSE LET later == FindLast(files, name, i + 1)
       IN IF later # 0 THEN later
          ELSE IF Components(files[i].path) = name THEN i ELSE 0

\* self.files.iter().find(|f| f.path() == name): the first match
RECURSIVE Find(_, _, _)
Find(files, name, i) ==
  IF i > Len(files) THEN 0
  ELSE IF Components(files[i].path) = name THEN i
  ELSE Find(files, name, i + 1)

\* MercurialRepository::get_file_status; dir is what file_name.is_dir() answers
get_file_status(self, file_name, dir) ==
  IF dir THEN [kind |-> "ok", status |-> "Directory"]
  ELSE LET sp == strip_prefix(file_name, self.path)
       IN IF ~sp.ok THEN [kind |-> "err", err |-> "StatusError"]
          ELSE LET i == Find(self.files, sp.name, 1)
               IN IF i = 0 THEN [kind |-> "ok", status |-> "NotTracked"]
                  ELSE [kind |-> "ok", status |-> self.files[i].status]

\* self.files.iter().any(|f| f.is_dirty())
RECURSIVE AnyDirty(_, _)
AnyDirty(files, i) ==
  IF i > Len(files) THEN FALSE
  ELSE IF is_dirty(files[i].status) THEN TRUE
  ELSE AnyDirty(files, i + 1)

\* MercurialRepository::is_dirty_repo
is_dirty_repo(self) == AnyDirty(self.files, 1)

(***************************************************************************)
(* Inputs of the parser specification                                      *)
(***************************************************************************)
SeqsUpTo(S, n) == UNION {[1..k -> S] : k \in 0..n}

Lines == SeqsUpTo(LineChars, MaxLineLen)


\* one call of MercurialFile::from on the line
ParseLine ==
  /\ pc = "line"
  /\ parsed' = MercurialFileFrom(line)
  /\ pc' = "parsed"
  /\ UNCHANGED <<line, repo, hgplain, inv, res, cur, depth, trail>>

InitParse ==
  /\ line \in Lines
  /\ parsed = NoRepo
  /\ pc = "line"
  /\ repo = NoRepo /\ hgplain = FALSE /\ inv = NoInv /\ res = Idle
  /\ cur = <<>> /\ depth = 0 /\ trail = <<>>

NextParse == ParseLine

SpecParse == InitParse /\ [][NextParse]_vars

(***************************************************************************)
(* Inputs of the handle specifications                                     *)
(***************************************************************************)
\* the lines hg may print: a blank line, one line per code character (known
\* or not) for the file a, and a line for the file d/a
StatusLines ==
  {<<>>} \cup {<<c, " ", "a">> : c \in StatusChars \cup {"X"}}
         \cup {<<"C", " ", "d", "/", "a">>}

RECURSIVE Join(_)
Join(ls) ==
  IF Len(ls) = 0 THEN <<>>
  ELSE IF Len(ls) = 1 THEN ls[1]
  ELSE ls[1] \o <<"\n">> \o Join(Tail(ls))

\* the captures: up to MaxLines lines, with or without the final line ending
Captures ==
  {Join(ls) \o t : ls \in SeqsUpTo(StatusLines, MaxLines), t \in {<<>>, <<"\n">>}}

NoRun == [kind |-> "none", code |-> 0, utf8 |-> TRUE, stdout |-> <<>>]

\* an hg that exits non-zero (no repository here) has printed nothing to stdout
HgRuns ==
  {[kind |-> "spawn_failed", code |-> 0, utf8 |-> TRUE, stdout |-> <<>>]}
  \cup {[kind |-> "exited", code |-> c, utf8 |-> FALSE, stdout |-> <<>>] : c \in {0, 255}}
  \cup {[kind |-> "exited", code |-> 0, utf8 |-> TRUE, stdout |-> t] : t \in Captures}
  \cup {[kind |-> "exited", code |-> 255, utf8 |-> TRUE, stdout |-> <<>>]}

\* what `hg --version` does in check_install_init
Versions == {"ran", "not_found", "other_error"}

RunsAfter(version) == IF version = "not_found" THEN {NoRun} ELSE HgRuns

Comp(c) == <<c>>
Roots == {<<Comp("r")>>, <<Comp("r"), Comp("d")>>}

QueryPaths ==
  { <<Comp("r")>>, <<Comp("r"), Comp("a")>>, <<Comp("r"), Comp("d")>>,
    <<Comp("r"), Comp("d"), Comp("a")>>, <<Comp("a")>>, <<Comp("o"), Comp("a")>> }

(***************************************************************************)
(* The handle: MercurialRepository                                         *)
(***************************************************************************)
\* let repo = MercurialRepository::new(path), with what hg answers; the
\* specification follows one handle, so new is called until it gives one
Open ==
  /\ pc = "run"
  /\ repo = NoRepo
  /\ \E path \in Roots, version \in Versions :
       \E run \in RunsAfter(version) :
         LET r == new(path, version, run)
         IN /\ inv' = [version |-> version, run |-> run]
            /\ hgplain' = (hgplain \/ check_install_init(version) = "Ok")
            /\ repo' = IF r.kind = "ok" THEN r.repo ELSE repo
            /\ pc' = IF r.kind = "panic" THEN "panicked" ELSE pc
            /\ res' = [op |-> "new", path |-> path,
                       result |-> IF r.kind = "err" THEN r.err
                                  ELSE IF r.kind = "panic" THEN "panic" ELSE "Ok"]
  /\ UNCHANGED <<line, parsed, cur, depth, trail>>

\* repo.update_repo(): self.files is assigned only when get_repo_status returned Ok
Refresh ==
  /\ pc = "run"
  /\ repo # NoRepo
  /\ \E run \in HgRuns :
       LET st == get_repo_status(run)
       IN /\ inv' = [version |-> "none", run |-> run]
          /\ repo' = IF st.kind = "ok" THEN [repo EXCEPT !.files = st.files] ELSE repo
          /\ pc' = IF st.kind = "panic" THEN "panicked" ELSE pc
          /\ res' = [op |-> "update_repo", path |-> repo.path,
                     result |-> IF st.kind = "err" THEN st.err
                                ELSE IF st.kind = "panic" THEN "panic" ELSE "Ok"]
  /\ UNCHANGED <<line, parsed, hgplain, cur, depth, trail>>

\* repo.get_file_status(file_name), with what file_name.is_dir() answers
StatusOf ==
  /\ pc = "run"
  /\ repo # NoRepo
  /\ \E file_name \in QueryPaths, dir \in BOOLEAN :
       res' = [op |-> "get_file_status", file_name |-> file_name, is_dir |-> dir,
               result |-> get_file_status(repo, file_name, dir)]
  /\ UNCHANGED <<line, parsed, repo, hgplain, inv, pc, cur, depth, trail>>

\* repo.is_dirty_repo()
IsDirty ==
  /\ pc = "run"
  /\ repo # NoRepo
  /\ res' = [op |-> "is_dirty_repo", result |-> is_dirty_repo(repo)]
  /\ UNCHANGED <<line, parsed, repo, hgplain, inv, pc, cur, depth, trail>>

InitRepo ==
  /\ repo = NoRepo /\ hgplain = FALSE /\ inv = NoInv /\ res = Idle
  /\ pc = "run"
  /\ line = <<>> /\ parsed = NoRepo
  /\ cur = <<>> /\ depth = 0 /\ trail = <<>>

\* open and refresh
NextRepo == Open \/ Refresh

SpecRepo == InitRepo /\ [][NextRepo]_vars

\* open and the queries
NextQuery == Open \/ StatusOf \/ IsDirty

SpecQuery == InitRepo /\ [][NextQuery]_vars

(***************************************************************************)
(* The ancestor search: find_parent_repo_recursively                       *)
(***************************************************************************)
None == [kind |-> "none"]

\* is_root_mercurial_repository: path.is_dir() && path.join(".hg").is_dir()
is_root_mercurial_repository(dir, marker) == dir /\ marker

\* a variant of FindFrame that gives up when new returns an error
FindFrameStopsOnError(path, depth_max, is_root, opened) ==
  IF depth_max = 0 THEN [kind |-> "return", value |-> None]
  ELSE IF is_root
  THEN IF opened.kind = "ok" THEN [kind |-> "return", value |-> opened.repo]
       ELSE IF opened.kind = "panic" THEN Panic
       ELSE [kind |-> "return", value |-> None]
  ELSE IF HasParent(path)
       THEN [kind |-> "recurse", path |-> Parent(path), depth_max |-> depth_max - 1]
       ELSE [kind |-> "return", value |-> None]

\* one call of find_parent_repo_recursively(path, depth_max); opened is what
\* MercurialRepository::new(path) gives when it is called
FindFrame(path, depth_max, is_root, opened) ==
  IF depth_max = 0 THEN [kind |-> "return", value |-> None]
  ELSE IF is_root
  THEN IF opened.kind = "ok" THEN [kind |-> "return", value |-> opened.repo]
       ELSE IF opened.kind = "panic" THEN Panic
       ELSE IF HasParent(path)
            THEN [kind |-> "recurse", path |-> Parent(path), depth_max |-> depth_max - 1]
            ELSE [kind |-> "return", value |-> None]
  ELSE IF HasParent(path)
       THEN [kind |-> "recurse", path |-> Parent(path), depth_max |-> depth_max - 1]
       ELSE [kind |-> "return", value |-> None]

\* the directory n levels below the filesystem root
PathOfLen(n) == [i \in 1..n |-> Comp("d")]

StartPaths == {PathOfLen(n) : n \in 0..MaxNest}

\* the hg runs at a candidate: those of a capture of at most one line
LocateRuns ==
  {r \in HgRuns : r.stdout \in {<<>>} \cup {l \o <<"\n">> : l \in StatusLines}}

\* one call of the recursion at the directory cur with depth left; trail
\* records the candidates tested so far and what each gave
FindStep ==
  /\ pc = "search"
  /\ \E dir \in BOOLEAN, marker \in BOOLEAN, version \in Versions :
       \E run \in RunsAfter(version) \cap (LocateRuns \cup {NoRun}) :
         LET is_root == is_root_mercurial_repository(dir, marker)
             called == depth > 0 /\ is_root
             opened == new(cur, version, run)
             f == FindFrame(cur, depth, is_root, opened)
         IN /\ hgplain' = (hgplain \/ (called /\ check_install_init(version) = "Ok"))
            /\ trail' = IF depth = 0 THEN trail
                        ELSE Append(trail, [path |-> cur, is_root |-> is_root,
                                            open |-> IF is_root THEN opened.kind ELSE "none"])
            /\ IF f.kind = "recurse"
               THEN /\ cur' = f.path
                    /\ depth' = f.depth_max
                    /\ UNCHANGED <<pc, res>>
               ELSE /\ pc' = IF f.kind = "panic" THEN "panicked" ELSE "done"
                    /\ res' = [res EXCEPT !.result = IF f.kind = "panic" THEN Panic ELSE f.value]
                    /\ UNCHANGED <<cur, depth>>
  /\ UNCHANGED <<line, parsed, repo, inv>>

InitLocate ==
  /\ cur \in StartPaths
  /\ depth \in 0..MaxDepth
  /\ res = [op |-> "find_parent_repo_recursively", path |-> cur, depth_max |-> depth,
            result |-> [kind |-> "pending"]]
  /\ pc = "search"
  /\ trail = <<>>
  /\ repo = NoRepo /\ hgplain = FALSE /\ inv = NoInv
  /\ line = <<>> /\ parsed = NoRepo

NextLocate == FindStep

SpecLocate == InitLocate /\ [][NextLocate]_vars

(***************************************************************************)
(* Claims                                                                  *)
(***************************************************************************)
UnderRoot(file_name) == IsPrefix(repo.path, file_name)

\* C1: get_file_status on a path that does not lie under the handle's root
\* fails with StatusError, whether or not the path is a directory.
C1_OutsideRootIsStatusError ==
  (res.op = "get_file_status" /\ ~UnderRoot(res.file_name))
    => (res.result.kind = "err" /\ res.result.err = "StatusError")

\* C2: parsing a line whose leading character is not a known code gives an
\* UnknownStatusCode error value; it neither aborts nor yields an entry.
C2_UnknownCodeIsError ==
  (pc = "parsed" /\ Len(line) >= 1 /\ line[1] \notin StatusChars)
    => (parsed.kind = "err" /\ parsed.err = "UnknownStatusCode")

\* the mapping table of the status codes
StatusTable ==
  ("M" :> "Modified") @@ ("A" :> "Added") @@ ("R" :> "Removed") @@ ("C" :> "Clean")
  @@ ("!" :> "Missing") @@ ("?" :> "NotTracked") @@ ("I" :> "Ignored")

\* a line made of a known code, a blank and a file name that neither starts
\* nor ends with a blank
WellFormedLine(l) ==
  /\ Len(l) >= 3
  /\ l[1] \in StatusChars
  /\ l[2] = " "
  /\ l[3] \notin Whitespace
  /\ l[Len(l)] \notin Whitespace

\* C3: a well-formed status line parses to the status the table gives for its
\* code and to the whole text after the prefix as its path, blanks included.
C3_ParseKeepsWholeSuffix ==
  (pc = "parsed" /\ WellFormedLine(line))
    => /\ parsed.kind = "file"
       /\ parsed.status = StatusTable[line[1]]
       /\ parsed.path = SubSeq(line, 3, Len(line))

\* the status run failed: it could not be started, or hg exited non-zero
RunFailed(run) == run.kind = "spawn_failed" \/ run.code # 0

\* C4: new gives a handle only when the status run succeeded; a failed run
\* gives NotMercurialRepository and a missing hg gives HgNotFound.
C4_OpenOnlyAfterSuccessfulRun ==
  res.op = "new"
    => /\ (inv.version = "not_found" => res.result = "HgNotFound")
       /\ ((inv.version # "not_found" /\ RunFailed(inv.run) /\ inv.run.utf8)
             => res.result = "NotMercurialRepository")
       /\ (res.result = "Ok" => ~RunFailed(inv.run))

\* the run gave a capture that was taken as the snapshot's source
RunSucceeded(run) ==
  ~RunFailed(run) /\ run.utf8 /\ MapFrom(lines(run.stdout), 1).kind = "ok"

\* C5: a refresh whose run succeeded replaces the snapshot by the parse of that
\* run's capture; any other refresh leaves the snapshot unchanged; the root
\* never changes.
C5_SnapshotOfLastSuccessfulRun ==
  [][res'.op = "update_repo"
       => /\ repo'.path = repo.path
          /\ IF RunSucceeded(inv'.run)
             THEN repo'.files = MapFrom(lines(inv'.run.stdout), 1).files
             ELSE repo'.files = repo.files]_vars

\* C8: is_dirty_repo is true exactly when some entry of the snapshot has a
\* status other than Clean.
C8_DirtyIffNonClean ==
  res.op = "is_dirty_repo"
    => (res.result <=> \E i \in 1..Len(repo.files) : repo.files[i].status # "Clean")

C8_Witness ==
  /\ res.op = "is_dirty_repo"
  /\ res.result
  /\ Len(repo.files) = 2
  /\ repo.files[1].status = "Clean"
  /\ repo.files[2].status = "Ignored"

Matches(name) == {i \in 1..Len(repo.files) : Components(repo.files[i].path) = name}
Least(S) == CHOOSE i \in S : \A j \in S : i <= j

\* C9: for a directory get_file_status gives Directory whatever the snapshot
\* holds; for a path under the root that is no directory it gives the status
\* of the first entry with the root-relative path, or NotTracked.
C9_DirectoryElseFirstMatch ==
  res.op = "get_file_status"
    => /\ res.is_dir => res.result = [kind |-> "ok", status |-> "Directory"]
       /\ (~res.is_dir /\ UnderRoot(res.file_name))
            => LET name == SubSeq(res.file_name, Len(repo.path) + 1, Len(res.file_name))
                   M == Matches(name)
               IN /\ res.result.kind = "ok"
                  /\ res.result.status =
                       IF M = {} THEN "NotTracked" ELSE repo.files[Least(M)].status

\* a directory that the snapshot lists with another status
C9_Witness ==
  /\ res.op = "get_file_status"
  /\ res.is_dir
  /\ UnderRoot(res.file_name)
  /\ \E i \in Matches(SubSeq(res.file_name, Len(repo.path) + 1, Len(res.file_name))) :
       repo.files[i].status = "Modified"
  /\ res.result.status = "Directory"

\* the non-empty lines of a capture, in order
NonEmptyLines(text) == SelectSeq(lines(text), LAMBDA l : l # <<>>)

\* C10: a snapshot built from a capture has one entry per non-empty line of
\* the capture, in order, and no entry has the status Directory.
C10_OneEntryPerNonEmptyLine ==
  (res.op \in {"new", "update_repo"} /\ res.result = "Ok")
    => LET ne == NonEmptyLines(inv.run.stdout)
       IN /\ Len(repo.files) = Len(ne)
          /\ \A i \in 1..Len(ne) :
               /\ repo.files[i] = MercurialFileFrom(ne[i])
               /\ repo.files[i].status # "Directory"

Last(t) == t[Len(t)]

RECURSIVE Ancestor(_, _)
Ancestor(p, i) == IF i = 1 THEN p ELSE Ancestor(Parent(p), i - 1)

Opens(e) == e.is_root /\ e.open = "ok"

\* C7: the search ends by returning the nearest candidate, from the start
\* upwards, that passes the marker check and opens, or None when depth_max is
\* 0, the depth runs out or a directory without parent is reached.
C7_ReturnsNearestOrNone ==
  pc # "search"
    => /\ pc = "done"
       /\ Len(trail) <= res.depth_max
       /\ \A i \in 1..Len(trail) : trail[i].path = Ancestor(res.path, i)
       /\ \A i \in 1..(Len(trail) - 1) : ~Opens(trail[i])
       /\ IF Len(trail) > 0 /\ Opens(Last(trail))
          THEN res.result.kind = "repo" /\ res.result.path = Last(trail).path
          ELSE /\ res.result = None
               /\ \/ Len(trail) = res.depth_max
                  \/ ~HasParent(Last(trail).path)

====
